---- MODULE Spec2Model ----
(***************************************************************************)
(* DashMonitor (dash.py): the /status endpoint and its four service       *)
(* adapters check_nzbget, check_deluge, check_sonarr and check_radarr.    *)
(*                                                                         *)
(* An upstream's answer to one HTTP request is either one of the three     *)
(* exception classes the adapters catch, or a response that passed         *)
(* raise_for_status() and carries a body.  A body is either not JSON at    *)
(* all, or a JSON value.  JSON values are tagged records; a JSON object is *)
(* a map from keys to JSON values in which an absent key maps to Absent.   *)
(***************************************************************************)
EXTENDS Integers, Sequences, FiniteSets, TLC

(* Largest power of 1024 offered as a transfer rate by the upstreams. *)
MaxRateExp == 2

----------------------------------------------------------------------------
(* class Status(Enum) *)
ACTIVE == "success"
IDLE == "info"
WARN == "warning"
ERROR == "danger"
UNKNOWN == "default"

Status == {ACTIVE, IDLE, WARN, ERROR, UNKNOWN}

----------------------------------------------------------------------------
(* JSON values and the Python operations the adapters apply to them. *)
Absent == [t |-> "absent"]
JNull == [t |-> "null"]
JArr == [t |-> "arr"]
JBool(b) == [t |-> "bool", b |-> b]
JNum(n) == [t |-> "num", n |-> n]
JStr(s) == [t |-> "str", s |-> s]
JObj(f) == [t |-> "obj", f |-> f]
NotJSON == [t |-> "notjson"]

(* A raised Python exception, as a value that the operations propagate. *)
Exc(name) == [t |-> "exc", name |-> name]
IsExc(v) == v.t = "exc"

HasKey(v, k) == k \in DOMAIN v.f /\ v.f[k].t # "absent"

(* bool(v) *)
Truthy(v) ==
  CASE v.t = "null" -> FALSE
    [] v.t = "bool" -> v.b
    [] v.t = "num" -> v.n # 0
    [] v.t = "str" -> v.s # ""
    [] v.t = "arr" -> FALSE
    [] v.t = "obj" -> \E k \in DOMAIN v.f : v.f[k].t # "absent"

(* v[k]: KeyError on a dict without the key, TypeError on anything that is *)
(* not a dict.                                                             *)
Subscript(v, k) ==
  IF IsExc(v) THEN v
  ELSE IF v.t = "obj" THEN (IF HasKey(v, k) THEN v.f[k] ELSE Exc("KeyError"))
  ELSE Exc("TypeError")

(* v.get(k, default): AttributeError on anything that is not a dict. *)
Get(v, k, default) ==
  IF IsExc(v) THEN v
  ELSE IF v.t = "obj" THEN (IF HasKey(v, k) THEN v.f[k] ELSE default)
  ELSE Exc("AttributeError")

(* v > 0 *)
GreaterThanZero(v) ==
  IF IsExc(v) THEN v
  ELSE IF v.t = "num" THEN JBool(v.n > 0)
  ELSE IF v.t = "bool" THEN JBool(v.b)
  ELSE Exc("TypeError")

(* Response.json(): ValueError when the body is not JSON. *)
json(body) == IF body = NotJSON THEN Exc("ValueError") ELSE body

----------------------------------------------------------------------------
(* util.filesize.size(bytes, system=filesize.iec): the largest binary unit *)
(* not above the value, the value divided by it and truncated, then the    *)
(* unit's prefix.  Units above Gi lie outside the integers of the model.   *)
iec == << <<1024 * 1024 * 1024, "Gi">>, <<1024 * 1024, "Mi">>, <<1024, "Ki">>, <<1, "">> >>

size(bytes) ==
  LET hits == {i \in 1..Len(iec) : bytes >= iec[i][1]}
      i == IF hits = {} THEN Len(iec) ELSE CHOOSE j \in hits : \A h \in hits : j <= h
  IN ToString(bytes \div iec[i][1]) \o iec[i][2]

(* "{}B/s".format(rate) *)
RateDetail(bytes) == size(bytes) \o "B/s"

----------------------------------------------------------------------------
(* What a call of an adapter ends with. *)
Return(level, detail) == [kind |-> "return", level |-> level, detail |-> detail]
Raise(name) == [kind |-> "raise", exc |-> name]

(* The exception classes of the adapters' except clauses. *)
Caught == {"ConnectionError", "HTTPError", "Timeout"}

Failed(resp) == resp.t \in Caught
Ok(body) == [t |-> "ok", body |-> body]

----------------------------------------------------------------------------
(* check_nzbget with the standby test put before the pause test. *)
check_nzbget_StandbyFirst(resp) ==
  IF Failed(resp) THEN Return(ERROR, "NoAPI")
  ELSE LET data == json(resp.body) IN
    IF IsExc(data) THEN Return(ERROR, "BadJSON")
    ELSE LET result == Subscript(data, "result")
             paused == Subscript(result, "DownloadPaused")
             standby == Subscript(result, "ServerStandBy")
             rate == Subscript(result, "DownloadRate")
         IN IF IsExc(standby) THEN Raise(standby.name)
            ELSE IF Truthy(standby) THEN Return(IDLE, "Idle")
            ELSE IF IsExc(paused) THEN Raise(paused.name)
            ELSE IF Truthy(paused) THEN Return(WARN, "Paused")
            ELSE IF IsExc(rate) THEN Raise(rate.name)
            ELSE Return(ACTIVE, RateDetail(rate.n))

(* check_nzbget, given the upstream's answer to GET /jsonrpc/status. *)
check_nzbget(resp) ==
  IF Failed(resp) THEN Return(ERROR, "NoAPI")
  ELSE LET data == json(resp.body) IN
    IF IsExc(data) THEN Return(ERROR, "BadJSON")
    ELSE LET result == Subscript(data, "result")
             paused == Subscript(result, "DownloadPaused")
             standby == Subscript(result, "ServerStandBy")
             rate == Subscript(result, "DownloadRate")
         IN IF IsExc(paused) THEN Raise(paused.name)
            ELSE IF Truthy(paused) THEN Return(WARN, "Paused")
            ELSE IF IsExc(standby) THEN Raise(standby.name)
            ELSE IF Truthy(standby) THEN Return(IDLE, "Idle")
            ELSE IF IsExc(rate) THEN Raise(rate.name)
            ELSE Return(ACTIVE, RateDetail(rate.n))

(* check_sonarr, given the upstream's answer to GET /api/system/status. *)
check_sonarr(resp) ==
  IF Failed(resp) THEN Return(ERROR, "NoAPI")
  ELSE LET data == json(resp.body) IN
    IF IsExc(data) THEN Return(ERROR, "BadJSON")
    ELSE LET version == Subscript(data, "version")
         IN IF IsExc(version) THEN Raise(version.name)
            ELSE IF Truthy(version) THEN Return(ACTIVE, "Online")
            ELSE Return(ERROR, "BadAPI")

(* check_radarr reporting a body that is not JSON as "BadAPI". *)
check_radarr_BadAPI(resp) ==
  IF Failed(resp) THEN Return(ERROR, "NoAPI")
  ELSE LET data == json(resp.body) IN
    IF IsExc(data) THEN Return(ERROR, "BadAPI")
    ELSE LET version == Subscript(data, "version")
         IN IF IsExc(version) THEN Raise(version.name)
            ELSE IF Truthy(version) THEN Return(ACTIVE, "Online")
            ELSE Return(ERROR, "BadAPI")

(* check_radarr, given the upstream's answer to GET /api/system/status. *)
check_radarr(resp) ==
  IF Failed(resp) THEN Return(ERROR, "NoAPI")
  ELSE LET data == json(resp.body) IN
    IF IsExc(data) THEN Return(ERROR, "BadJSON")
    ELSE LET version == Subscript(data, "version")
         IN IF IsExc(version) THEN Raise(version.name)
            ELSE IF Truthy(version) THEN Return(ACTIVE, "Online")
            ELSE Return(ERROR, "BadAPI")

(* check_deluge's login step ended without a return: the call goes on. *)
Continue == [kind |-> "continue"]

(* check_deluge's first except clause returning the second one's detail. *)
check_deluge_login_NoAPI(resp) ==
  IF Failed(resp) THEN Return(ERROR, "NoAPI") ELSE Continue

(* check_deluge's first except clause without its return statement. *)
check_deluge_login_FallThrough(resp) == Continue

(* check_deluge up to the end of its first try block, given the upstream's *)
(* answer to the auth.login POST: it returns, or goes on to the query.     *)
check_deluge_login(resp) ==
  IF Failed(resp) THEN Return(ERROR, "NoAPILogin") ELSE Continue

(* check_deluge from its second try block on, given the upstream's answer  *)
(* to the web.update_ui POST.                                              *)
check_deluge_query(resp) ==
  IF Failed(resp) THEN Return(ERROR, "NoAPI")
  ELSE LET data == json(resp.body) IN
    IF IsExc(data) THEN Return(ERROR, "BadJSON")
    ELSE LET stats == Get(Get(data, "result", JBool(FALSE)), "stats", JBool(FALSE))
             down == GreaterThanZero(Get(stats, "download_rate", JNum(0)))
             up == GreaterThanZero(Get(stats, "upload_rate", JNum(0)))
             rate == Subscript(Subscript(Subscript(data, "result"), "stats"), "download_rate")
         IN IF IsExc(stats) THEN Raise(stats.name)
            ELSE IF Truthy(stats)
              THEN IF IsExc(down) THEN Raise(down.name)
                   ELSE IF down.b THEN Return(ACTIVE, RateDetail(rate.n))
                   ELSE IF IsExc(up) THEN Raise(up.name)
                   ELSE IF up.b THEN Return(IDLE, "Seeding")
                   ELSE Return(IDLE, "Idle")
              ELSE Return(ERROR, "BadAPI")

----------------------------------------------------------------------------
(* The answers the upstreams can give. *)
Rates == {0} \cup {1024 ^ k : k \in 0..MaxRateExp}

Failures == {[t |-> e] : e \in Caught}

Flags == {Absent, JBool(FALSE), JBool(TRUE)}

NzbgetResults ==
  [DownloadPaused : Flags, ServerStandBy : Flags,
   DownloadRate : {Absent} \cup {JNum(r) : r \in Rates}]

NzbgetBodies ==
  {NotJSON, JArr, JObj([result |-> Absent]), JObj([result |-> JNull])}
    \cup {JObj([result |-> JObj(r)]) : r \in NzbgetResults}

NzbgetResponses == Failures \cup {Ok(b) : b \in NzbgetBodies}

Versions == {Absent, JNull, JStr(""), JStr("2.0.0.5344")}

StatusBodies == {NotJSON, JArr} \cup {JObj([version |-> v]) : v \in Versions}

StatusResponses == Failures \cup {Ok(b) : b \in StatusBodies}

LoginResponses == Failures \cup {Ok(JObj([result |-> JBool(b)])) : b \in BOOLEAN}

DelugeStats ==
  [download_rate : {Absent, JNull} \cup {JNum(r) : r \in Rates},
   upload_rate : {Absent, JNum(0), JNum(200)}]

DelugeBodies ==
  {NotJSON, JArr, JObj([result |-> Absent]), JObj([result |-> JNull]),
   JObj([result |-> JObj([stats |-> Absent])]),
   JObj([result |-> JObj([stats |-> JNull])])}
    \cup {JObj([result |-> JObj([stats |-> JObj(s)])]) : s \in DelugeStats}

QueryResponses == Failures \cup {Ok(b) : b \in DelugeBodies}

----------------------------------------------------------------------------
(* The process: the /status handler and what it leaves behind.             *)
(*   pc              where the handler stands: "idle" between requests,    *)
(*                   else the adapter call it is about to make             *)
(*   data            the results collected by the current request          *)
(*   http            the answer given to the current or last request       *)
(*   calls           how often the current request invoked each adapter    *)
(*   deluge_session  the module-level name deluge_session                  *)
(*   session, login  check_deluge's local session and login response       *)
(*   logins, queries the POSTs the current request's check_deluge sent     *)
(*   last            the adapter call that ended last: what its upstream   *)
(*                   answered and how it ended                             *)
(*   ref             some adapter call that ended before last, kept to     *)
(*                   compare later calls with                              *)
VARIABLES pc, data, http, calls, deluge_session, session, login, logins, queries, last, ref

vars == <<pc, data, http, calls, deluge_session, session, login, logins, queries, last, ref>>

Services == {"nzbget", "deluge", "sonarr", "radarr"}

None == [t |-> "none"]
NotRun == [kind |-> "notrun"]
NotSent == [t |-> "notsent"]

(* jsonify(data): each (level, detail) tuple becomes a two-element array. *)
jsonify(d) ==
  [t |-> "response", status |-> 200,
   body |-> [s \in DOMAIN d |-> <<d[s].level, d[s].detail>>]]

(* The framework's answer when the view function raises. *)
InternalServerError == [t |-> "response", status |-> 500]

Init ==
  /\ pc = "idle"
  /\ data = [s \in Services |-> NotRun]
  /\ http = None
  /\ calls = [s \in Services |-> 0]
  /\ deluge_session = None
  /\ session = None
  /\ login = None
  /\ logins = 0
  /\ queries = 0
  /\ last = None
  /\ ref = None

(* A GET /status arrives: status() starts to build its dict. *)
Request ==
  /\ pc = "idle"
  /\ pc' = "nzbget"
  /\ data' = [s \in Services |-> NotRun]
  /\ http' = None
  /\ calls' = [s \in Services |-> 0]
  /\ logins' = 0
  /\ queries' = 0
  /\ UNCHANGED <<deluge_session, session, login, last, ref>>

(* An adapter call ends with out, having seen resp.  A raise leaves        *)
(* status() at once and the framework answers 500; a return is stored      *)
(* under the adapter's key, and after the last adapter the dict is         *)
(* answered through jsonify.                                               *)
Ended(svc, resp, out, next) ==
  /\ last' = [svc |-> svc, resp |-> resp, out |-> out]
  /\ ref' \in (IF ref = None THEN {None, last} ELSE {ref})
  /\ IF out.kind = "raise"
       THEN /\ pc' = "idle"
            /\ data' = data
            /\ http' = InternalServerError
       ELSE /\ pc' = next
            /\ data' = [data EXCEPT ![svc] = out]
            /\ http' = IF next = "idle" THEN jsonify(data') ELSE http

CheckNzbget ==
  /\ pc = "nzbget"
  /\ calls' = [calls EXCEPT !["nzbget"] = @ + 1]
  /\ \E resp \in NzbgetResponses : Ended("nzbget", resp, check_nzbget(resp), "deluge")
  /\ UNCHANGED <<deluge_session, session, login, logins, queries>>

(* check_deluge's first half with the two commented-out lines active: the *)
(* session is the module-level one, and the login is skipped once it is   *)
(* set.                                                                    *)
DelugeLogin_SessionReuse ==
  /\ pc = "deluge"
  /\ calls' = [calls EXCEPT !["deluge"] = @ + 1]
  /\ IF deluge_session # None
       THEN /\ pc' = "deluge_query"
            /\ UNCHANGED <<data, http, last, ref, deluge_session, session, login, logins>>
       ELSE /\ logins' = logins + 1
            /\ deluge_session' = [t |-> "Session"]
            /\ session' = None
            /\ \E resp \in LoginResponses :
                 LET out == check_deluge_login(resp) IN
                 IF out = Continue
                   THEN /\ login' = resp
                        /\ pc' = "deluge_query"
                        /\ UNCHANGED <<data, http, last, ref>>
                   ELSE /\ login' = None
                        /\ Ended("deluge", [login |-> resp, query |-> NotSent], out, "sonarr")
  /\ UNCHANGED queries

(* check_deluge, first half: a fresh local session, then the login POST. *)
DelugeLogin ==
  /\ pc = "deluge"
  /\ calls' = [calls EXCEPT !["deluge"] = @ + 1]
  /\ logins' = logins + 1
  /\ \E resp \in LoginResponses :
       LET out == check_deluge_login(resp) IN
       IF out = Continue
         THEN /\ session' = [t |-> "Session"]
              /\ login' = resp
              /\ pc' = "deluge_query"
              /\ UNCHANGED <<data, http, last, ref>>
         ELSE /\ session' = None
              /\ login' = None
              /\ Ended("deluge", [login |-> resp, query |-> NotSent], out, "sonarr")
  /\ UNCHANGED <<deluge_session, queries>>

(* check_deluge, second half: the query POST on the same session and the   *)
(* reading of its answer; the locals die with the call.                    *)
DelugeQuery ==
  /\ pc = "deluge_query"
  /\ queries' = queries + 1
  /\ \E resp \in QueryResponses :
       Ended("deluge", [login |-> login, query |-> resp], check_deluge_query(resp), "sonarr")
  /\ session' = None
  /\ login' = None
  /\ UNCHANGED <<calls, deluge_session, logins>>

CheckSonarr ==
  /\ pc = "sonarr"
  /\ calls' = [calls EXCEPT !["sonarr"] = @ + 1]
  /\ \E resp \in StatusResponses : Ended("sonarr", resp, check_sonarr(resp), "radarr")
  /\ UNCHANGED <<deluge_session, session, login, logins, queries>>

CheckRadarr ==
  /\ pc = "radarr"
  /\ calls' = [calls EXCEPT !["radarr"] = @ + 1]
  /\ \E resp \in StatusResponses : Ended("radarr", resp, check_radarr(resp), "idle")
  /\ UNCHANGED <<deluge_session, session, login, logins, queries>>

Next == Request \/ CheckNzbget \/ DelugeLogin \/ DelugeQuery \/ CheckSonarr \/ CheckRadarr

Spec == Init /\ [][Next]_vars

----------------------------------------------------------------------------
(* Vocabulary of the properties: the response an ended call decoded, and   *)
(* the parts of its body.                                                  *)
Decoded(call) == IF call.svc = "deluge" THEN call.resp.query ELSE call.resp

TransportOk(call) == Decoded(call).t = "ok"

Field(v, k) == IF v.t = "obj" /\ HasKey(v, k) THEN v.f[k] ELSE Absent

Returned(call, level, detail) == call.out = Return(level, detail)

(* The body is an object with the fields the adapter reads: check_nzbget   *)
(* reads the standby flag only when not paused and the rate only when      *)
(* neither paused nor on standby.                                          *)
ExpectedFormat(svc, body) ==
  CASE svc = "nzbget" ->
         LET result == Field(body, "result")
             pause == Field(result, "DownloadPaused")
             standby == Field(result, "ServerStandBy")
         IN /\ pause # Absent
            /\ Truthy(pause) \/ standby # Absent
            /\ Truthy(pause) \/ Truthy(standby) \/ Field(result, "DownloadRate") # Absent
    [] svc = "deluge" -> Field(Field(body, "result"), "stats").t = "obj"
    [] OTHER -> Field(body, "version") # Absent

----------------------------------------------------------------------------
(* C1: no adapter ever raises to its caller: whatever its upstream         *)
(* answered, every adapter call ends by returning a (level, detail) pair.  *)
C1_NoAdapterRaises ==
  last # None =>
    /\ last.out.kind = "return"
    /\ last.out.level \in Status

(* C2: every answered GET /status is a 200 whose mapping has exactly the   *)
(* four keys nzbget, deluge, sonarr and radarr, each a [level, detail]     *)
(* pair, whatever the upstreams did.                                       *)
C2_StatusAlways200 ==
  http.t = "response" =>
    /\ http.status = 200
    /\ DOMAIN http.body = Services
    /\ \A s \in Services : http.body[s][1] \in Status

Invoke(s) ==
  CASE s = "nzbget" -> CheckNzbget
    [] s = "deluge" -> DelugeLogin
    [] s = "sonarr" -> CheckSonarr
    [] s = "radarr" -> CheckRadarr

(* C3: within one aggregate run each adapter is invoked exactly once and   *)
(* independently of the others: once the request is answered every adapter *)
(* has been invoked once, and while it runs an adapter not yet invoked can *)
(* start without waiting for another adapter's call to end.                *)
C3_EachOnceIndependently ==
  /\ http.t = "response" => \A s \in Services : calls[s] = 1
  /\ pc # "idle" => \A s \in Services : calls[s] = 0 => ENABLED Invoke(s)

(* C4: a transport failure (ConnectionError, Timeout, HTTPError) on an     *)
(* adapter's request yields exactly (Error, "NoAPI"), except that on       *)
(* check_deluge's login step it yields exactly (Error, "NoAPILogin");      *)
(* "NoAPILogin" is returned in no other situation.                         *)
C4_TransportFailure ==
  last # None =>
    /\ last.svc # "deluge" /\ Failed(last.resp) => Returned(last, ERROR, "NoAPI")
    /\ last.svc = "deluge" /\ Failed(last.resp.login) => Returned(last, ERROR, "NoAPILogin")
    /\ last.svc = "deluge" /\ Failed(last.resp.query) => Returned(last, ERROR, "NoAPI")
    /\ last.out.kind = "return" /\ last.out.detail = "NoAPILogin"
         => last.svc = "deluge" /\ Failed(last.resp.login)

C4_Witness ==
  /\ last # None
  /\ last.svc = "deluge"
  /\ last.resp.login.t = "Timeout"
  /\ Returned(last, ERROR, "NoAPILogin")
  /\ ref # None
  /\ ref.svc = "nzbget"
  /\ ref.resp.t = "ConnectionError"
  /\ Returned(ref, ERROR, "NoAPI")

(* C5, as claimed: when the transport succeeded but the body cannot be     *)
(* decoded as the expected format (an object with the fields the adapter   *)
(* reads), the adapter returns exactly (Error, "BadJSON").  Stated here of *)
(* the calls that return, so that what refutes it is a returned result.    *)
C5_UnexpectedFormatIsBadJSON ==
  last # None /\ last.out.kind = "return" /\ TransportOk(last)
    /\ ~ExpectedFormat(last.svc, Decoded(last).body)
    => Returned(last, ERROR, "BadJSON")

(* C5, amended: when the transport succeeded but the body is not JSON      *)
(* (Response.json() raises ValueError), the adapter returns exactly        *)
(* (Error, "BadJSON"), and it returns "BadJSON" for no other body.         *)
C5_NotJSONIsBadJSON ==
  last # None =>
    /\ TransportOk(last) /\ Decoded(last).body = NotJSON => Returned(last, ERROR, "BadJSON")
    /\ last.out.kind = "return" /\ last.out.detail = "BadJSON"
         => TransportOk(last) /\ Decoded(last).body = NotJSON

C5_Witness ==
  /\ last # None
  /\ last.svc = "deluge"
  /\ TransportOk(last)
  /\ last.resp.query.body = NotJSON
  /\ Returned(last, ERROR, "BadJSON")
  /\ ref # None
  /\ ref.svc = "nzbget"
  /\ ref.resp = Ok(NotJSON)
  /\ Returned(ref, ERROR, "BadJSON")

(* C6: for check_sonarr and check_radarr, given a fetched and decoded      *)
(* response object, a non-empty version yields (Active, "Online") and an   *)
(* empty, falsy or absent version yields (Error, "BadAPI"); both adapters  *)
(* end the same way on the same response.                                  *)
C6_VersionDecides ==
  /\ last # None /\ last.svc \in {"sonarr", "radarr"} /\ TransportOk(last)
       /\ last.resp.body.t = "obj"
       => LET version == Field(last.resp.body, "version") IN
          IF version # Absent /\ Truthy(version)
            THEN Returned(last, ACTIVE, "Online")
            ELSE Returned(last, ERROR, "BadAPI")
  /\ last # None /\ ref # None /\ {last.svc, ref.svc} = {"sonarr", "radarr"}
       /\ last.resp = ref.resp
       => last.out = ref.out

(* C7: for check_nzbget, given a decoded result with a pause flag, a       *)
(* standby flag and a rate, the first match wins: pause true yields        *)
(* (Warn, "Paused") whatever the rest, else standby true yields            *)
(* (Idle, "Idle") whatever the rate, else the result is Active with the    *)
(* formatted rate; Active is never returned when either flag is true.      *)
C7_FirstMatchWins ==
  last # None /\ last.svc = "nzbget" =>
    LET result == IF TransportOk(last) THEN Field(last.resp.body, "result") ELSE Absent
        pause == Field(result, "DownloadPaused")
        standby == Field(result, "ServerStandBy")
        rate == Field(result, "DownloadRate")
    IN /\ pause # Absent /\ standby # Absent /\ rate # Absent =>
            IF pause.b THEN Returned(last, WARN, "Paused")
            ELSE IF standby.b THEN Returned(last, IDLE, "Idle")
            ELSE Returned(last, ACTIVE, RateDetail(rate.n))
       /\ last.out.kind = "return" /\ last.out.level = ACTIVE =>
            pause # JBool(TRUE) /\ standby # JBool(TRUE)

C7_Witness ==
  /\ last # None
  /\ last.svc = "nzbget"
  /\ TransportOk(last)
  /\ Field(Field(last.resp.body, "result"), "DownloadPaused") = JBool(TRUE)
  /\ Field(Field(last.resp.body, "result"), "ServerStandBy") = JBool(TRUE)
  /\ Field(Field(last.resp.body, "result"), "DownloadRate") = JNum(1024)
  /\ Returned(last, WARN, "Paused")

RateOf(stats, k) == IF Field(stats, k) = Absent THEN JNum(0) ELSE Field(stats, k)

(* C8: for check_deluge, given a decoded query response: when the decoded  *)
(* result lacks a stats object (the result itself absent, or stats empty,  *)
(* included) the result is (Error, "BadAPI"); otherwise download_rate > 0  *)
(* yields Active with a detail ending in "B/s", else upload_rate > 0       *)
(* yields (Idle, "Seeding"), else (Idle, "Idle"), an absent rate being 0.  *)
C8_StatsDecide ==
  last # None /\ last.svc = "deluge" /\ TransportOk(last) /\ last.resp.query.body.t = "obj" =>
    LET stats == Field(Field(last.resp.query.body, "result"), "stats")
        down == RateOf(stats, "download_rate")
        up == RateOf(stats, "upload_rate")
    IN IF stats.t # "obj" \/ ~Truthy(stats) THEN Returned(last, ERROR, "BadAPI")
       ELSE down.t = "num" /\ up.t = "num" =>
              IF down.n > 0
                THEN /\ last.out.kind = "return"
                     /\ last.out.level = ACTIVE
                     /\ \E r \in Rates : last.out.detail = size(r) \o "B/s"
              ELSE IF up.n > 0 THEN Returned(last, IDLE, "Seeding")
              ELSE Returned(last, IDLE, "Idle")

(* C9: in every run of check_deluge the web.update_ui query is sent only   *)
(* after the auth.login request succeeded at the transport level, and then *)
(* whatever boolean the login response carries; after a login that failed  *)
(* at the transport level no query is sent.  A check sends at most one     *)
(* login and at most one query.                                            *)
C9_LoginThenQuery ==
  /\ logins <= 1 /\ queries <= 1 /\ queries <= logins
  /\ pc = "deluge_query" => logins = 1 /\ queries = 0 /\ login.t = "ok"
  /\ pc = "sonarr" =>
       /\ last.svc = "deluge"
       /\ logins = 1
       /\ queries = (IF last.resp.login.t = "ok" THEN 1 ELSE 0)
  /\ last # None /\ last.svc = "deluge" =>
       (last.resp.query # NotSent <=> last.resp.login.t = "ok")

C9_Witness ==
  /\ pc = "sonarr"
  /\ last.svc = "deluge"
  /\ last.resp.login = Ok(JObj([result |-> JBool(FALSE)]))
  /\ last.resp.query # NotSent
  /\ logins = 1
  /\ queries = 1

(* C10: the aggregate is stateless and idempotent: the module-level        *)
(* deluge_session stays None, the session of a check_deluge call does not  *)
(* outlive the call, and two calls of an adapter that see the same         *)
(* upstream responses end the same way, whatever ran in between.           *)
C10_StatelessIdempotent ==
  /\ deluge_session = None
  /\ pc # "deluge_query" => session = None /\ login = None
  /\ last # None /\ ref # None /\ last.svc = ref.svc /\ last.resp = ref.resp
       => last.out = ref.out

C10_Witness ==
  /\ last # None
  /\ ref # None
  /\ last.svc = "deluge"
  /\ ref.svc = "deluge"
  /\ last.resp = ref.resp
  /\ last.resp.query # NotSent
  /\ last.out.kind = "return"
  /\ last.out.level = ACTIVE
  /\ pc = "sonarr"
  /\ deluge_session = None

====
